---------------------------- MODULE Spec2Model ----------------------------
(***************************************************************************)
(* devmux: a TUI process multiplexer (src/main.go, second variant of the   *)
(* file, lines 309-742).  The model has several parts, each with its own   *)
(* specification over its own variables:                                   *)
(*   Spec      the supervisor: registry, focus, startup goroutine, reload, *)
(*             exit watch, signal goroutine and the shutdown sequence;     *)
(*             LifecycleSpec and OperatorSpec are Spec under two           *)
(*             environments (exits and signals; every operator command);   *)
(*             FairSpec is LifecycleSpec under fair scheduling;            *)
(*   MoveSpec  moveProc as the code computes it on Go slices;              *)
(*   SinkSpec  two copy tasks writing through one lockingWriter;           *)
(*   GraceSpec reloadProc's grace loop on a clock;                         *)
(*   PaneSpec  all the tasks that write into one pane's view;              *)
(*   PipeSpec  one instance's pipes, copy tasks and exit watch.            *)
(* The runtime.GOOS == "windows" branch of killTree is not modelled: the   *)
(* file calls syscall.Getpgid / syscall.Kill and so builds for POSIX only. *)
(***************************************************************************)
EXTENDS Integers, Sequences, FiniteSets, TLC

\* ------------------------------------------------------------- bounds
MaxProcs == 2
MaxPanes == 2
MaxReloads == 1
MaxLen == 3
MaxWrites == 2
MaxChunk == 2
MaxQuits == 2
MaxInstances == 2
MaxBytes == 2
MaxFairProcs == 1

\* ------------------------------------------- program constants (10 ms)
GracePeriod == 200    \* 2 * time.Second
PollInterval == 5     \* 50 * time.Millisecond
KillSettle == 15      \* 150 * time.Millisecond

VARIABLES
    specs,      \* cfg.Processes: the declarations, fixed after loading
    heap,       \* the *Proc objects, by pointer identity 1..Len(specs)
    procs,      \* main's variable procs: the registry, a slice of *Proc
    focus,      \* app.GetFocus(): a view identity, 0 = not a pane's TextView
    os,         \* the OS processes spawned: those still in the process table
                \* and those a handle's Cmd refers to
    view,       \* what each pane's TextView holds (set of notice lines)
    mainPc,     \* main goroutine: event loop, reload, shutdown sequence
    rlH,        \* the *Proc reloadProc is working on (0 = none)
    sdIdx,      \* loop index of the shutdown broadcasts
    slept,      \* how many times the shutdown grace period was slept
    sdSent,     \* per handle, the signals the shutdown broadcasts delivered
    quits,      \* quit triggers so far (keys and signals), counted up to
                \* MaxQuits; app.Stop() has been called iff quits > 0
    sigPc,      \* the signal goroutine: wait -> done
    goPc,       \* the startup goroutine: sleep -> loop -> done
    goI,        \* its loop index i
    nReload,    \* reloads issued so far (bounded by MaxReloads)
    lastCmd,    \* OperatorSpec: the last operator command handled
    mem,        \* MoveSpec: Go memory, backing arrays by name
    mvIn,       \* MoveSpec: the argument slice's contents at the call
    mvFrom,     \* MoveSpec: argument from
    mvTo,       \* MoveSpec: argument to
    mvRet,      \* MoveSpec: the returned slice (array name, length)
    mvPc,       \* MoveSpec: ready -> done
    mu,         \* SinkSpec: lockingWriter.mu, "free", else the holder
    surface,    \* SinkSpec: bytes received by the underlying writer
    wPc,        \* SinkSpec: each copy task's position
    wBuf,       \* SinkSpec: the chunk each task is writing
    wPos,       \* SinkSpec: bytes of the chunk already passed on
    wCnt        \* SinkSpec: Write calls made by each task

VARIABLES
    clk,        \* GraceSpec: time.Now() in units of 10 ms since reloadProc's SIGTERM
    rgPc,       \* GraceSpec: reloadProc's position in lines 561-577
    rgDeadline, \* GraceSpec: the local variable deadline
    rgReapedAt, \* GraceSpec: when p.Cmd.ProcessState was set (-1: still nil)
    rgKillAt,   \* GraceSpec: when SIGKILL was issued (-1: not issued)
    rgEndAt,    \* GraceSpec: when the wait ended (-1: not yet)
    pnPc,       \* PaneSpec: position of each task that writes into the pane
    pnMu,       \* PaneSpec: the mutex of each instance's lockingWriter
    pnInst,     \* PaneSpec: process instances started for the handle so far
    ppChild,    \* PipeSpec: the child process: running, exited
    ppWait,     \* PipeSpec: the exit watch: in cmd.Wait, or returned
    ppOpen,     \* PipeSpec: per stream, the parent's read end is still open
    ppPipe,     \* PipeSpec: per stream, bytes in the kernel pipe buffer
    ppSent,     \* PipeSpec: per stream, how many bytes the child has written
    ppCopy,     \* PipeSpec: per stream, io.Copy's position
    ppBuf,      \* PipeSpec: per stream, bytes io.Copy has read and not written
    ppSunk      \* PipeSpec: per stream, its bytes written into the sink, in order

mainVars == <<specs, heap, procs, focus, os, view, mainPc, rlH, sdIdx, slept, sdSent,
              quits, sigPc, goPc, goI, nReload>>
moveVars == <<mem, mvIn, mvFrom, mvTo, mvRet, mvPc>>
sinkVars == <<mu, surface, wPc, wBuf, wPos, wCnt>>
graceVars == <<clk, rgPc, rgDeadline, rgReapedAt, rgKillAt, rgEndAt>>
paneVars == <<pnPc, pnMu, pnInst>>
pipeVars == <<ppChild, ppWait, ppOpen, ppPipe, ppSent, ppCopy, ppBuf, ppSunk>>
partVars == <<graceVars, paneVars, pipeVars>>
vars == <<mainVars, lastCmd, moveVars, sinkVars, partVars>>

\* ------------------------------------------------------------ helpers
Range(s) == {s[i] : i \in 1..Len(s)}

RECURSIVE SeqsUpTo(_, _)
SeqsUpTo(S, n) ==
    IF n = 0 THEN {<<>>}
    ELSE LET shorter == SeqsUpTo(S, n - 1)
         IN  shorter \cup {Append(s, x) : s \in {t \in shorter : Len(t) = n - 1}, x \in S}

\* =====================================================================
\* moveProc on Go slices (src/main.go 515-533)
\* =====================================================================
\* A backing array is a sequence of cells (0 = nil); a slice is an array
\* name and a length (every slice here starts at cell 1).
NilArray(n) == [i \in 1..n |-> 0]

SetCells(a, start, vals) ==
    [i \in 1..Len(a) |->
        IF i >= start /\ i < start + Len(vals) THEN vals[i - start + 1] ELSE a[i]]

\* for i, p := range procs { if i == from { continue }; newOrder = append(newOrder, p) }
\* i is the Go (0-based) index; acc is newOrder's array, n its length.
RECURSIVE moveLoop(_, _, _, _, _)
moveLoop(src, from, i, acc, n) ==
    IF i >= Len(src) THEN [arr |-> acc, len |-> n]
    ELSE IF i = from THEN moveLoop(src, from, i + 1, acc, n)
    ELSE moveLoop(src, from, i + 1, SetCells(acc, n + 1, <<src[i + 1]>>), n + 1)

\* The classic in-place deletion append(procs[:from], procs[from+1:]...): it
\* writes into the argument's own backing array.
moveProcInPlace(m, from, to) ==
    LET src == m["procs"]
        L   == Len(src)
    IN  IF from < 0 \/ from >= L \/ to < 0 \/ to >= L \/ from = to
        THEN [mem |-> m, ret |-> [arr |-> "procs", len |-> L]]
        ELSE LET moved == src[from + 1]
                 cut   == SubSeq(src, 1, from) \o SubSeq(src, from + 2, L)
                 out   == SubSeq(cut, 1, to) \o <<moved>> \o SubSeq(cut, to + 1, L - 1)
             IN  [mem |-> [m EXCEPT !["procs"] = out],
                  ret |-> [arr |-> "procs", len |-> L]]

\* A move that stores the moved handle over the one at the target position.
moveProcOverwrite(m, from, to) ==
    LET src == m["procs"]
        L   == Len(src)
    IN  IF from < 0 \/ from >= L \/ to < 0 \/ to >= L \/ from = to
        THEN [mem |-> m, ret |-> [arr |-> "procs", len |-> L]]
        ELSE [mem |-> [m EXCEPT !["newOrder"] = [src EXCEPT ![to + 1] = src[from + 1]]],
              ret |-> [arr |-> "newOrder", len |-> L]]

\* moveProc(procs, from, to) run on memory m, where m["procs"] is the
\* argument's backing array: the memory afterwards and the slice returned.
moveProcMem(m, from, to) ==
    LET src == m["procs"]
        L   == Len(src)
    IN  IF from < 0 \/ from >= L \/ to < 0 \/ to >= L \/ from = to
        THEN [mem |-> m, ret |-> [arr |-> "procs", len |-> L]]
        ELSE LET lp == moveLoop(src, from, 0, NilArray(L), 0)
             IN  IF to >= lp.len
                 THEN \* newOrder = append(newOrder, procs[from]): within cap
                      [mem |-> [m EXCEPT !["newOrder"] =
                                   SetCells(lp.arr, lp.len + 1, <<src[from + 1]>>)],
                       ret |-> [arr |-> "newOrder", len |-> lp.len + 1]]
                 ELSE \* append([]*Proc{procs[from]}, newOrder[to:]...) grows into
                      \* a fresh array; the outer append then stays within cap.
                      LET tmp == <<src[from + 1]>> \o SubSeq(lp.arr, to + 1, lp.len)
                      IN  [mem |-> [m EXCEPT !["newOrder"] = SetCells(lp.arr, to + 1, tmp),
                                             !["tmp"] = tmp],
                           ret |-> [arr |-> "newOrder", len |-> to + Len(tmp)]]

SliceValue(m, s) == SubSeq(m[s.arr], 1, s.len)

\* moveProc as a function of values, as main's J/K handlers use it.
moveProc(ps, from, to) ==
    LET r == moveProcMem([a \in {"procs", "newOrder", "tmp"} |->
                            IF a = "procs" THEN ps ELSE <<>>], from, to)
    IN  SliceValue(r.mem, r.ret)

MoveInit ==
    /\ mvIn \in SeqsUpTo(1..MaxLen, MaxLen)
    /\ mem = [a \in {"procs", "newOrder", "tmp"} |-> IF a = "procs" THEN mvIn ELSE <<>>]
    /\ mvFrom \in -1..MaxLen
    /\ mvTo \in -1..MaxLen
    /\ mvRet = [arr |-> "procs", len |-> Len(mvIn)]
    /\ mvPc = "ready"

CallMoveProc ==
    /\ mvPc = "ready"
    /\ LET r == moveProcMem(mem, mvFrom, mvTo)
       IN  /\ mem' = r.mem
           /\ mvRet' = r.ret
    /\ mvPc' = "done"
    /\ UNCHANGED <<mvIn, mvFrom, mvTo>>


\* =====================================================================
\* The supervisor (src/main.go 386-439, 478-742)
\* =====================================================================
\* A declaration: whether its command can be spawned, and its follow default.
\* The configurations tried use these two declarations.
ProcSpec == {[cmd |-> "ok", follow |-> FALSE], [cmd |-> "missing", follow |-> TRUE]}

\* Lines a pane's TextView can hold that the supervisor itself writes.
Notices == {"exited", "reload: no argv", "reload: sending SIGTERM",
            "reload: forcing SIGKILL", "reload: starting"}

N == Len(specs)

\* args = [s.Cmd] ++ s.Args: never empty.  An argv is identified by the
\* declaration it was built from and whether its binary can be executed.
ArgvOf(ss, i) == <<[decl |-> i, bin |-> ss[i].cmd]>>

\* makeProcsFromSpecs: one *Proc (pointer i) and one argv per declaration,
\* both in declaration order.
makeProcsFromSpecs(ss) ==
    [heap  |-> [i \in 1..Len(ss) |->
                  [Name |-> i, Cmd |-> 0, View |-> i,
                   Follow |-> ss[i].follow, Argv |-> ArgvOf(ss, i)]],
     procs |-> [i \in 1..Len(ss) |-> i],
     argvs |-> [i \in 1..Len(ss) |-> ArgvOf(ss, i)]]

argvs == makeProcsFromSpecs(specs).argvs

\* focusedProcIndex: Go index of the pane whose View has the focus, else -1.
focusedProcIndex(f, ps) ==
    IF \E i \in 1..Len(ps) : heap[ps[i]].View = f
    THEN (CHOOSE i \in 1..Len(ps) :
            /\ heap[ps[i]].View = f
            /\ \A j \in 1..(i - 1) : heap[ps[j]].View # f) - 1
    ELSE -1

\* ----------------------------------------------------------- startProc
\* cmd.Start() fails for a binary that cannot be executed.
StartFails(argv) == argv[1].bin # "ok"

\* A process record: the handle it was spawned for (h), its identity among
\* that handle's processes (id; p.Cmd holds this number, 0 for nil), the
\* declaration whose argv it runs, its state and the signals sent to it.
\* A new process gets the least identity no existing process of h has.
NewId(o, p) ==
    CHOOSE k \in 1..(Cardinality(o) + 1) :
        /\ \A x \in o : ~(x.h = p /\ x.id = k)
        /\ \A j \in 1..(k - 1) : \E x \in o : x.h = p /\ x.id = j

NewProcess(o, p, argv) ==
    [h |-> p, id |-> NewId(o, p), argv |-> argv[1].decl, st |-> "running",
     sigs |-> <<>>, atQuit |-> FALSE]

\* A waited-for process that no handle refers to any more is gone for good.
Collect(hp, o) == {x \in o : x.st # "reaped" \/ hp[x.h].Cmd = x.id}

\* A start that also resets the pane's follow flag.
startProcResetFollow(hp, o, p, argv) ==
    IF StartFails(argv) THEN [heap |-> hp, os |-> o]
    ELSE LET nh == [hp EXCEPT ![p].Cmd = NewId(o, p), ![p].Follow = TRUE]
         IN  [heap |-> nh, os |-> Collect(nh, o \cup {NewProcess(o, p, argv)})]

\* startProc(app, p, argv...): on error nothing changes; otherwise a new OS
\* process exists and p.Cmd refers to it.  The spawn and the assignment
\* p.Cmd = cmd are taken as one step.
startProc(hp, o, p, argv) ==
    IF StartFails(argv) THEN [heap |-> hp, os |-> o]
    ELSE LET nh == [hp EXCEPT ![p].Cmd = NewId(o, p)]
         IN  [heap |-> nh, os |-> Collect(nh, o \cup {NewProcess(o, p, argv)})]

\* The process p.Cmd refers to (p.Cmd is not nil).
Current(hp, o, p) == CHOOSE x \in o : x.h = p /\ x.id = hp[p].Cmd

\* ------------------------------------------------------------ killTree
\* killTree(p, sig): nothing when p.Cmd is nil; nothing reaches a process
\* that has been waited for (Getpgid and Signal both fail, errors dropped).
\* by names the caller ("reload" or "shutdown").
killTree(hp, o, p, sig, by) ==
    IF hp[p].Cmd = 0 THEN o
    ELSE LET c == Current(hp, o, p)
         IN  IF c.st = "reaped" THEN o
             ELSE (o \ {c}) \cup {[c EXCEPT !.sigs = Append(@, <<sig, by>>)]}

\* cmd.ProcessState != nil: Wait has returned for p's current process.
ProcessStateSet(hp, o, p) == hp[p].Cmd # 0 /\ Current(hp, o, p).st = "reaped"

\* A write that is dropped.
WriteNothing(v, p, line) == v

\* A write that lands in the first pane's view whatever the handle.
WriteFirstPane(v, p, line) == [v EXCEPT ![1] = @ \cup {line}]

\* fmt.Fprintf(p.View, ...): the line is added to p's view.
Write(v, p, line) == [v EXCEPT ![heap[p].View] = @ \cup {line}]

\* ------------------------------------------------------------ app.Stop
\* app.Stop(): Run returns once the handler in progress has returned.  The
\* processes running at the first call are remembered in atQuit.
CountQuit(q) == IF q < MaxQuits THEN q + 1 ELSE q

AppStop(o) ==
    IF quits > 0 THEN o
    ELSE {[x EXCEPT !.atQuit = (x.st = "running")] : x \in o}

\* --------------------------------------------------------------- Init
GraceIdle ==
    /\ clk = 0
    /\ rgPc = "idle"
    /\ rgDeadline = 0
    /\ rgReapedAt = -1
    /\ rgKillAt = -1
    /\ rgEndAt = -1

PaneIdle ==
    /\ pnPc = <<>>
    /\ pnMu = <<>>
    /\ pnInst = 0

PipeIdle ==
    /\ ppChild = "none"
    /\ ppWait = "none"
    /\ ppOpen = <<>>
    /\ ppPipe = <<>>
    /\ ppSent = <<>>
    /\ ppCopy = <<>>
    /\ ppBuf = <<>>
    /\ ppSunk = <<>>

PartsIdle == GraceIdle /\ PaneIdle /\ PipeIdle

MoveIdle ==
    /\ mvIn = <<>>
    /\ mem = [a \in {"procs", "newOrder", "tmp"} |-> <<>>]
    /\ mvFrom = 0
    /\ mvTo = 0
    /\ mvRet = [arr |-> "procs", len |-> 0]
    /\ mvPc = "ready"

Writers == {"stdout", "stderr"}

SinkIdle ==
    /\ mu = "free"
    /\ surface = <<>>
    /\ wPc = [w \in Writers |-> "done"]
    /\ wBuf = [w \in Writers |-> <<>>]
    /\ wPos = [w \in Writers |-> 0]
    /\ wCnt = [w \in Writers |-> 0]

\* main up to app.Run: the configuration is loaded (any list of at most
\* MaxProcs declarations, the empty one included), the handles are built,
\* the focus is on the main area (no pane), both goroutines are launched.
MainInit ==
    /\ specs \in SeqsUpTo(ProcSpec, MaxProcs)
    /\ heap = makeProcsFromSpecs(specs).heap
    /\ procs = makeProcsFromSpecs(specs).procs
    /\ focus = 0
    /\ os = {}
    /\ view = [i \in 1..Len(specs) |-> {}]
    /\ mainPc = "run"
    /\ rlH = 0
    /\ sdIdx = 0
    /\ slept = 0
    /\ sdSent = [i \in 1..Len(specs) |-> <<>>]
    /\ quits = 0
    /\ sigPc = "wait"
    /\ goPc = "sleep"
    /\ goI = 0
    /\ nReload = 0
    /\ lastCmd = "none"

Init == MainInit /\ MoveIdle /\ SinkIdle /\ PartsIdle

\* ------------------------------------------------- startup goroutine
\* time.Sleep(120ms); for i := range procs: the range expression is
\* evaluated here, once (its length is the number of declarations).
StartupWake ==
    /\ mainPc # "exit"
    /\ goPc = "sleep"
    /\ goPc' = IF N = 0 THEN "done" ELSE "loop"
    /\ goI' = 0
    /\ UNCHANGED <<specs, heap, procs, focus, os, view, mainPc, rlH, sdIdx, slept, sdSent,
                   quits, sigPc, nReload>>

\* _ = startProc(app, procs[i], argvs[i]...): procs is read again in every
\* iteration (the closure shares main's variable); the error is dropped.
StartupStep ==
    /\ mainPc # "exit"
    /\ goPc = "loop"
    /\ LET r == startProc(heap, os, procs[goI + 1], argvs[goI + 1])
       IN  /\ heap' = r.heap
           /\ os' = r.os
    /\ goI' = goI + 1
    /\ goPc' = IF goI + 1 >= N THEN "done" ELSE "loop"
    /\ UNCHANGED <<specs, procs, focus, view, mainPc, rlH, sdIdx, slept, sdSent,
                   quits, sigPc, nReload>>

\* ------------------------------------------------------- child, exit watch
\* An OS process ends (by itself or because of a signal).
ChildExit(x) ==
    /\ x.st = "running"
    /\ os' = (os \ {x}) \cup {[x EXCEPT !.st = "exited"]}
    /\ UNCHANGED <<specs, heap, procs, focus, view, mainPc, rlH, sdIdx, slept, sdSent,
                   quits, sigPc, goPc, goI, nReload>>

\* err := cmd.Wait(); fmt.Fprintf(p.View, "[%s] exited: %v"): Wait sets
\* cmd.ProcessState; the notice goes to the pane the process was started for.
ExitWatch(x) ==
    /\ mainPc # "exit"
    /\ x.st = "exited"
    /\ os' = Collect(heap, (os \ {x}) \cup {[x EXCEPT !.st = "reaped"]})
    /\ view' = Write(view, x.h, "exited")
    /\ UNCHANGED <<specs, heap, procs, focus, mainPc, rlH, sdIdx, slept, sdSent,
                   quits, sigPc, goPc, goI, nReload>>

\* --------------------------------------------------- signal goroutine
\* SIGINT/SIGTERM reaches devmux.  The first one cancels ctx and the signal
\* goroutine calls app.Stop(); later ones are received and dropped.
Interrupt ==
    /\ mainPc # "exit"
    /\ sigPc' = "done"
    /\ quits' = CountQuit(quits)
    /\ os' = IF sigPc = "wait" THEN AppStop(os) ELSE os
    /\ UNCHANGED <<specs, heap, procs, focus, view, mainPc, rlH, sdIdx, slept, sdSent,
                   goPc, goI, nReload>>

\* ------------------------------------------------ input capture (keys)
\* Handlers run on the event loop, one at a time, while Run has not returned
\* (events queued before Stop took effect are still handled).

\* TAB without the wrap-around.
tabFocusNoWrap(f, ps) ==
    LET idx == focusedProcIndex(f, ps)
    IN  IF idx >= 0 /\ idx + 1 < Len(ps) THEN heap[ps[idx + 2]].View ELSE f

\* case tcell.KeyTAB: the focus after the handler.
tabFocus(f, ps) ==
    LET idx == focusedProcIndex(f, ps)
    IN  IF idx >= 0 THEN heap[ps[((idx + 1) % Len(ps)) + 1]].View ELSE f

KeyTAB ==
    /\ mainPc = "run"
    /\ focus' = tabFocus(focus, procs)
    /\ UNCHANGED <<specs, heap, procs, os, view, mainPc, rlH, sdIdx, slept, sdSent,
                   quits, sigPc, goPc, goI, nReload>>

\* case tcell.KeyCtrlL: procs[idx].View.Clear()
KeyCtrlL ==
    /\ mainPc = "run"
    /\ LET idx == focusedProcIndex(focus, procs)
       IN  view' = IF idx >= 0 THEN [view EXCEPT ![heap[procs[idx + 1]].View] = {}]
                   ELSE view
    /\ UNCHANGED <<specs, heap, procs, focus, os, mainPc, rlH, sdIdx, slept, sdSent,
                   quits, sigPc, goPc, goI, nReload>>

\* case tcell.KeyCtrlC, 'q', 'Q': app.Stop()
KeyQuit ==
    /\ mainPc = "run"
    /\ quits' = CountQuit(quits)
    /\ os' = AppStop(os)
    /\ UNCHANGED <<specs, heap, procs, focus, view, mainPc, rlH, sdIdx, slept, sdSent,
                   sigPc, goPc, goI, nReload>>

\* case 'f': procs[idx].Follow = !procs[idx].Follow
KeyF ==
    /\ mainPc = "run"
    /\ LET idx == focusedProcIndex(focus, procs)
       IN  heap' = IF idx >= 0 THEN [heap EXCEPT ![procs[idx + 1]].Follow = ~@]
                   ELSE heap
    /\ UNCHANGED <<specs, procs, focus, os, view, mainPc, rlH, sdIdx, slept, sdSent,
                   quits, sigPc, goPc, goI, nReload>>

\* case 'g', 'G': ScrollToBeginning / ScrollToEnd; the scroll offset lives
\* inside the TextView and is no state of the supervisor.
KeyScroll ==
    /\ mainPc = "run"
    /\ UNCHANGED <<specs, heap, procs, focus, os, view, mainPc, rlH, sdIdx, slept, sdSent,
                   quits, sigPc, goPc, goI, nReload>>

\* A move that sets the focus by position in the old order.
moveDownStaleFocus(ps, f) ==
    LET idx == focusedProcIndex(f, ps)
    IN  IF idx >= 0 /\ idx + 1 < Len(ps)
        THEN [procs |-> moveProc(ps, idx, idx + 1), focus |-> heap[ps[idx + 2]].View]
        ELSE [procs |-> ps, focus |-> f]

\* case 'J': procs = moveProc(procs, idx, idx+1); the root is rebuilt and
\* the focus is set to procs[idx+1].View of the new order.
moveDown(ps, f) ==
    LET idx == focusedProcIndex(f, ps)
    IN  IF idx >= 0 /\ idx + 1 < Len(ps)
        THEN LET np == moveProc(ps, idx, idx + 1)
             IN  [procs |-> np, focus |-> heap[np[idx + 2]].View]
        ELSE [procs |-> ps, focus |-> f]

\* case 'K': procs = moveProc(procs, idx, idx-1); focus to procs[idx-1].View.
moveUp(ps, f) ==
    LET idx == focusedProcIndex(f, ps)
    IN  IF idx > 0
        THEN LET np == moveProc(ps, idx, idx - 1)
             IN  [procs |-> np, focus |-> heap[np[idx]].View]
        ELSE [procs |-> ps, focus |-> f]

KeyJ ==
    /\ mainPc = "run"
    /\ procs' = moveDown(procs, focus).procs
    /\ focus' = moveDown(procs, focus).focus
    /\ UNCHANGED <<specs, heap, os, view, mainPc, rlH, sdIdx, slept, sdSent,
                   quits, sigPc, goPc, goI, nReload>>

KeyK ==
    /\ mainPc = "run"
    /\ procs' = moveUp(procs, focus).procs
    /\ focus' = moveUp(procs, focus).focus
    /\ UNCHANGED <<specs, heap, os, view, mainPc, rlH, sdIdx, slept, sdSent,
                   quits, sigPc, goPc, goI, nReload>>

\* EnableMouse(true): a click gives the focus to the clicked pane's
\* TextView, or takes it off the panes (a click on the header).
MouseClick ==
    /\ mainPc = "run"
    /\ \E v \in 0..N : focus' = v
    /\ UNCHANGED <<specs, heap, procs, os, view, mainPc, rlH, sdIdx, slept, sdSent,
                   quits, sigPc, goPc, goI, nReload>>

\* ----------------------------------------------------------- reloadProc
\* fmt.Fprintf(p.View, "[%s] reload: starting..."); _ = startProc(app, p, p.Argv...)
reloadRestart(hp, o, v, p) ==
    LET r == startProc(hp, o, p, hp[p].Argv)
    IN  [heap |-> r.heap, os |-> r.os, view |-> Write(v, p, "reload: starting")]

\* case 'r': reloadProc(app, procs[idx]) up to the grace loop.  With no argv
\* only a notice is written; with a process reference SIGTERM is sent and the
\* handler starts polling; with none the restart follows at once.
KeyR ==
    /\ mainPc = "run"
    /\ nReload < MaxReloads
    /\ LET idx == focusedProcIndex(focus, procs)
           p   == procs[idx + 1]
       IN  IF idx < 0
           THEN UNCHANGED <<heap, os, view, mainPc, rlH, nReload>>
           ELSE /\ nReload' = nReload + 1
                /\ IF Len(heap[p].Argv) = 0
                   THEN /\ view' = Write(view, p, "reload: no argv")
                        /\ UNCHANGED <<heap, os, mainPc, rlH>>
                   ELSE IF heap[p].Cmd # 0
                   THEN /\ view' = Write(view, p, "reload: sending SIGTERM")
                        /\ os' = killTree(heap, os, p, "SIGTERM", "reload")
                        /\ mainPc' = "rl_wait"
                        /\ rlH' = p
                        /\ UNCHANGED heap
                   ELSE /\ heap' = reloadRestart(heap, os, view, p).heap
                        /\ os' = reloadRestart(heap, os, view, p).os
                        /\ view' = reloadRestart(heap, os, view, p).view
                        /\ UNCHANGED <<mainPc, rlH>>
    /\ UNCHANGED <<specs, procs, focus, sdIdx, slept, sdSent, quits, sigPc, goPc, goI>>

\* The grace loop sees p.Cmd.ProcessState != nil (at a poll, or at the check
\* after the deadline): no SIGKILL, restart.
ReloadExitSeen ==
    /\ mainPc = "rl_wait"
    /\ ProcessStateSet(heap, os, rlH)
    /\ heap' = reloadRestart(heap, os, view, rlH).heap
    /\ os' = reloadRestart(heap, os, view, rlH).os
    /\ view' = reloadRestart(heap, os, view, rlH).view
    /\ mainPc' = "run"
    /\ rlH' = 0
    /\ UNCHANGED <<specs, procs, focus, sdIdx, slept, sdSent, quits, sigPc, goPc, goI,
                   nReload>>

\* The deadline passes with ProcessState still nil: notice, SIGKILL, and a
\* sleep of 150 ms.
ReloadDeadline ==
    /\ mainPc = "rl_wait"
    /\ ~ProcessStateSet(heap, os, rlH)
    /\ view' = Write(view, rlH, "reload: forcing SIGKILL")
    /\ os' = killTree(heap, os, rlH, "SIGKILL", "reload")
    /\ mainPc' = "rl_sleep"
    /\ UNCHANGED <<specs, heap, procs, focus, rlH, sdIdx, slept, sdSent, quits, sigPc,
                   goPc, goI, nReload>>

\* After the 150 ms the restart follows, whatever became of the old process.
ReloadAfterKill ==
    /\ mainPc = "rl_sleep"
    /\ heap' = reloadRestart(heap, os, view, rlH).heap
    /\ os' = reloadRestart(heap, os, view, rlH).os
    /\ view' = reloadRestart(heap, os, view, rlH).view
    /\ mainPc' = "run"
    /\ rlH' = 0
    /\ UNCHANGED <<specs, procs, focus, sdIdx, slept, sdSent, quits, sigPc, goPc, goI,
                   nReload>>

\* ----------------------------------------------------- shutdown sequence
\* A broadcast that sends SIGKILL in both loops.
broadcastSignalKillOnly(pc) == "SIGKILL"

\* The signal of each broadcast loop: SIGTERM first, SIGKILL after the sleep.
broadcastSignal(pc) == IF pc = "term" THEN "SIGTERM" ELSE "SIGKILL"

\* A sequence in which main does not return after the second broadcast.
afterBroadcastNoReturn(pc) == IF pc = "term" THEN "grace" ELSE "wait"

\* A sequence that goes back to the event loop after the second broadcast.
afterBroadcastReenter(pc) == IF pc = "term" THEN "grace" ELSE "run"

\* What follows a broadcast loop: the sleep after the first, the return
\* from main after the second.
afterBroadcast(pc) == IF pc = "term" THEN "grace" ELSE "exit"

\* app.Run returns (Stop was called and no handler is running).
RunReturns ==
    /\ mainPc = "run"
    /\ quits > 0
    /\ mainPc' = IF N = 0 THEN "grace" ELSE "term"
    /\ sdIdx' = 0
    /\ UNCHANGED <<specs, heap, procs, focus, os, view, rlH, slept, sdSent, quits, sigPc,
                   goPc, goI, nReload>>

\* killTree(p, syscall.SIGTERM) resp. killTree(p, syscall.SIGKILL) for the
\* next handle of the registry; sdSent notes the signal if it was delivered.
Broadcast ==
    /\ mainPc \in {"term", "kill"}
    /\ LET p   == procs[sdIdx + 1]
           sig == broadcastSignal(mainPc)
           o   == killTree(heap, os, p, sig, "shutdown")
       IN  /\ os' = o
           /\ sdSent' = IF o # os THEN [sdSent EXCEPT ![p] = Append(@, sig)] ELSE sdSent
    /\ sdIdx' = sdIdx + 1
    /\ mainPc' = IF sdIdx + 1 >= N THEN afterBroadcast(mainPc) ELSE mainPc
    /\ UNCHANGED <<specs, heap, procs, focus, view, rlH, slept, quits, sigPc,
                   goPc, goI, nReload>>

\* time.Sleep(2 * time.Second), between the two loops.
Grace ==
    /\ mainPc = "grace"
    /\ slept' = slept + 1
    /\ sdIdx' = 0
    /\ mainPc' = IF N = 0 THEN "exit" ELSE "kill"
    /\ UNCHANGED <<specs, heap, procs, focus, os, view, rlH, sdSent, quits, sigPc,
                   goPc, goI, nReload>>

\* ------------------------------------------------------ specifications
\* The program's own steps.
Program ==
    \/ StartupWake
    \/ StartupStep
    \/ ReloadDeadline
    \/ ReloadAfterKill
    \/ RunReturns
    \/ Broadcast
    \/ Grace

\* Every step of the supervisor and of its environment.
Next ==
    /\ \/ Program
       \/ \E x \in os : ChildExit(x)
       \/ \E x \in os : ExitWatch(x)
       \/ ReloadExitSeen
       \/ Interrupt
       \/ KeyTAB
       \/ KeyCtrlL
       \/ KeyQuit
       \/ KeyF
       \/ KeyScroll
       \/ KeyJ
       \/ KeyK
       \/ MouseClick
       \/ KeyR
    /\ UNCHANGED <<lastCmd, moveVars, sinkVars, partVars>>

Spec == Init /\ [][Next]_vars

\* The supervisor with children that exit and signals that arrive at any
\* time, and an operator who focuses by mouse, reorders, reloads and quits.
LifecycleNext ==
    /\ \/ StartupWake
       \/ StartupStep
       \/ \E x \in os : ChildExit(x)
       \/ \E x \in os : ExitWatch(x)
       \/ Interrupt
       \/ MouseClick
       \/ KeyJ
       \/ KeyK
       \/ KeyR
       \/ KeyQuit
       \/ ReloadExitSeen
       \/ ReloadDeadline
       \/ ReloadAfterKill
       \/ RunReturns
       \/ Broadcast
       \/ Grace
    /\ UNCHANGED <<lastCmd, moveVars, sinkVars, partVars>>

LifecycleSpec == Init /\ [][LifecycleNext]_vars

\* The supervisor under every operator command, with up to MaxPanes panes,
\* children that keep running and no external signal; lastCmd records the
\* command handled last.
OperatorInit ==
    /\ specs \in SeqsUpTo(ProcSpec, MaxPanes)
    /\ heap = makeProcsFromSpecs(specs).heap
    /\ procs = makeProcsFromSpecs(specs).procs
    /\ focus = 0
    /\ os = {}
    /\ view = [i \in 1..Len(specs) |-> {}]
    /\ mainPc = "run"
    /\ rlH = 0
    /\ sdIdx = 0
    /\ slept = 0
    /\ sdSent = [i \in 1..Len(specs) |-> <<>>]
    /\ quits = 0
    /\ sigPc = "wait"
    /\ goPc = "sleep"
    /\ goI = 0
    /\ nReload = 0
    /\ lastCmd = "none"
    /\ MoveIdle
    /\ SinkIdle
    /\ PartsIdle

OperatorNext ==
    /\ \/ Program /\ UNCHANGED lastCmd
       \/ KeyTAB /\ lastCmd' = "TAB"
       \/ KeyCtrlL /\ lastCmd' = "CtrlL"
       \/ KeyQuit /\ lastCmd' = "quit"
       \/ KeyF /\ lastCmd' = "f"
       \/ KeyScroll /\ lastCmd' = "scroll"
       \/ KeyJ /\ lastCmd' = "J"
       \/ KeyK /\ lastCmd' = "K"
       \/ MouseClick /\ lastCmd' = "mouse"
       \/ KeyR /\ lastCmd' = "r"
    /\ UNCHANGED <<moveVars, sinkVars, partVars>>

OperatorSpec == OperatorInit /\ [][OperatorNext]_vars

\* ------------------------------------------------------------ MoveSpec
\* The supervisor's variables while moveProc or the sink is looked at alone.
MainIdle ==
    /\ specs = <<>>
    /\ heap = <<>>
    /\ procs = <<>>
    /\ focus = 0
    /\ os = {}
    /\ view = <<>>
    /\ mainPc = "run"
    /\ rlH = 0
    /\ sdIdx = 0
    /\ slept = 0
    /\ sdSent = <<>>
    /\ quits = 0
    /\ sigPc = "wait"
    /\ goPc = "sleep"
    /\ goI = 0
    /\ nReload = 0
    /\ lastCmd = "none"

MoveSpecInit == MoveInit /\ SinkIdle /\ MainIdle /\ PartsIdle

MoveNext == CallMoveProc /\ UNCHANGED <<mainVars, lastCmd, sinkVars, partVars>>

MoveSpec == MoveSpecInit /\ [][MoveNext]_vars

\* =====================================================================
\* lockingWriter (src/main.go 354-363) under the two copy tasks of one
\* process (src/main.go 427-430)
\* =====================================================================
\* The n bytes of task w's k-th Write call.
Chunk(w, k, n) == [j \in 1..n |-> <<w, k, j>>]

SinkInit ==
    /\ mu = "free"
    /\ surface = <<>>
    /\ wPc = [w \in Writers |-> "read"]
    /\ wBuf = [w \in Writers |-> <<>>]
    /\ wPos = [w \in Writers |-> 0]
    /\ wCnt = [w \in Writers |-> 0]

\* io.Copy reads the next bytes of the pipe and calls lw.Write with them.
CopyRead(w) ==
    /\ wPc[w] = "read"
    /\ wCnt[w] < MaxWrites
    /\ \E n \in 1..MaxChunk : wBuf' = [wBuf EXCEPT ![w] = Chunk(w, wCnt[w] + 1, n)]
    /\ wCnt' = [wCnt EXCEPT ![w] = @ + 1]
    /\ wPc' = [wPc EXCEPT ![w] = "lock"]
    /\ UNCHANGED <<mu, surface, wPos>>

\* The pipe reaches end-of-input: io.Copy returns.
CopyEof(w) ==
    /\ wPc[w] = "read"
    /\ wPc' = [wPc EXCEPT ![w] = "done"]
    /\ UNCHANGED <<mu, surface, wBuf, wPos, wCnt>>

\* A Lock that never waits.
lockNeverWaits(m) == TRUE

\* l.mu.Lock() returns only when the mutex is free.
lockAcquirable(m) == m = "free"

WriterLock(w) ==
    /\ wPc[w] = "lock"
    /\ lockAcquirable(mu)
    /\ mu' = w
    /\ wPos' = [wPos EXCEPT ![w] = 0]
    /\ wPc' = [wPc EXCEPT ![w] = "write"]
    /\ UNCHANGED <<surface, wBuf, wCnt>>

\* l.w.Write(b): the underlying writer takes the bytes one after another;
\* nothing in it is assumed to be atomic.
WriterByte(w) ==
    /\ wPc[w] = "write"
    /\ wPos[w] < Len(wBuf[w])
    /\ surface' = Append(surface, wBuf[w][wPos[w] + 1])
    /\ wPos' = [wPos EXCEPT ![w] = @ + 1]
    /\ UNCHANGED <<mu, wPc, wBuf, wCnt>>

\* defer l.mu.Unlock(); Write returns and io.Copy goes on.
WriterUnlock(w) ==
    /\ wPc[w] = "write"
    /\ wPos[w] = Len(wBuf[w])
    /\ mu' = "free"
    /\ wPc' = [wPc EXCEPT ![w] = "read"]
    /\ UNCHANGED <<surface, wBuf, wPos, wCnt>>

SinkNext ==
    /\ \E w \in Writers :
          \/ CopyRead(w)
          \/ CopyEof(w)
          \/ WriterLock(w)
          \/ WriterByte(w)
          \/ WriterUnlock(w)
    /\ UNCHANGED <<mainVars, lastCmd, moveVars, partVars>>

SinkSpecInit == SinkInit /\ MoveIdle /\ MainIdle /\ PartsIdle

SinkSpec == SinkSpecInit /\ [][SinkNext]_vars

\* =====================================================================
\* Properties
\* =====================================================================
Handles == 1..N

Live(h) == {x \in os : x.h = h /\ x.st = "running"}

\* C1: every handle has at most one live OS process that was spawned for
\* it, in every reachable state of LifecycleSpec (startup task, focus,
\* reorder, reload and child exits interleaved in any way).
C1_AtMostOneLivePerHandle == \A h \in Handles : Cardinality(Live(h)) <= 1

\* C2: after any sequence of operator commands the registry procs is a
\* permutation of exactly the handles makeProcsFromSpecs created: same
\* length, none duplicated, none dropped.
C2_RegistryIsPermutation ==
    /\ Len(procs) = Len(makeProcsFromSpecs(specs).procs)
    /\ Range(procs) = Range(makeProcsFromSpecs(specs).procs)

\* C2 case: two panes, the last command was a reorder that changed the
\* order, and a reload has been issued before it.
C2_ReorderedAfterCommands ==
    /\ lastCmd \in {"J", "K"}
    /\ N = 2
    /\ procs # makeProcsFromSpecs(specs).procs
    /\ nReload = 1

Without(s, i) == SubSeq(s, 1, i - 1) \o SubSeq(s, i + 1, Len(s))

mvOut == SliceValue(mem, mvRet)

mvValid ==
    /\ mvFrom >= 0 /\ mvFrom < Len(mvIn)
    /\ mvTo >= 0 /\ mvTo < Len(mvIn)
    /\ mvFrom # mvTo

\* C3: once moveProc has returned: with in-range indices from # to, the
\* result has the handle formerly at from at position to and the other
\* handles in their original relative order; otherwise the result is the
\* input; in every case the input slice's contents are what they were.
C3_MoveProcContract ==
    mvPc = "done" =>
        /\ mem["procs"] = mvIn
        /\ IF mvValid
           THEN /\ Len(mvOut) = Len(mvIn)
                /\ mvOut[mvTo + 1] = mvIn[mvFrom + 1]
                /\ Without(mvOut, mvTo + 1) = Without(mvIn, mvFrom + 1)
           ELSE mvOut = mvIn

\* C3 case: move(0,2) on A,B,C has returned B,C,A.
C3_MoveZeroTwo ==
    /\ mvPc = "done"
    /\ mvIn = <<1, 2, 3>>
    /\ mvFrom = 0
    /\ mvTo = 2
    /\ mvOut = <<2, 3, 1>>

\* Positions of signal sig, sent by the shutdown sequence, in x's signals.
ShutdownAt(x, sig) == {i \in 1..Len(x.sigs) : x.sigs[i] = <<sig, "shutdown">>}

Count(q, sig) == Cardinality({i \in 1..Len(q) : q[i] = sig})

C5_ShutdownOnce ==
    /\ \A h \in Handles :
          /\ Count(sdSent[h], "SIGTERM") <= 1
          /\ Count(sdSent[h], "SIGKILL") <= 1
    /\ slept <= 1
    /\ \A x \in os :
          /\ Cardinality(ShutdownAt(x, "SIGTERM")) <= 1
          /\ Cardinality(ShutdownAt(x, "SIGKILL")) <= 1

\* C5 case: more than one quit trigger occurred, one of them a signal to
\* the program, and the shutdown has delivered both signals to a handle.
C5_ManyTriggersOneShutdown ==
    /\ quits = MaxQuits
    /\ sigPc = "done"
    /\ mainPc = "exit"
    /\ \E h \in Handles : sdSent[h] = <<"SIGTERM", "SIGKILL">>

\* C6: the bytes of one Write call reach the underlying writer next to each
\* other: every byte but a chunk's first comes directly after the byte
\* before it in the same chunk, so no chunk has another's bytes inside.
C6_WritesNotInterleaved ==
    \A i \in 1..Len(surface) :
        surface[i][3] > 1 =>
            /\ i > 1
            /\ surface[i - 1] = <<surface[i][1], surface[i][2], surface[i][3] - 1>>

\* C6 case: stderr's task is in the middle of a two-byte Write while
\* stdout's task has called Write with two bytes and waits for the lock.
C6_ConcurrentWrites ==
    /\ wPc["stderr"] = "write"
    /\ Len(wBuf["stderr"]) = 2
    /\ wPos["stderr"] = 1
    /\ wPc["stdout"] = "lock"
    /\ Len(wBuf["stdout"]) = 2

\* A step of reloadProc, and the handle it works on (0 when 'r' finds no
\* focused pane).
ReloadStep == KeyR \/ ReloadExitSeen \/ ReloadDeadline \/ ReloadAfterKill

ReloadTarget ==
    IF mainPc = "run"
    THEN IF focusedProcIndex(focus, procs) >= 0
         THEN procs[focusedProcIndex(focus, procs) + 1] ELSE 0
    ELSE rlH

ProcessesOf(o, h) == {x \in o : x.h = h}

\* C7: every step of a reload leaves the registry order as it is, leaves
\* each handle's name, view, follow flag and argv as they are and keeps
\* what the views held, and leaves every handle other than the reloaded
\* one unchanged altogether (fields, view contents, processes).
C7_ReloadFrame ==
    [][ReloadStep =>
          /\ procs' = procs
          /\ \A h \in Handles :
                /\ heap'[h].Name = heap[h].Name
                /\ heap'[h].View = heap[h].View
                /\ heap'[h].Follow = heap[h].Follow
                /\ heap'[h].Argv = heap[h].Argv
                /\ view[heap[h].View] \subseteq view'[heap[h].View]
                /\ h # ReloadTarget =>
                      /\ heap'[h] = heap[h]
                      /\ view'[heap[h].View] = view[heap[h].View]
                      /\ ProcessesOf(os', h) = ProcessesOf(os, h)]_vars

\* C7 case: with two handles, a reload has sent SIGTERM, restarted the
\* command and returned; the handle refers to a new running process and
\* its view still holds the notice of an earlier exit.
C7_ReloadDone ==
    /\ N = 2
    /\ mainPc = "run"
    /\ nReload = 1
    /\ \E h \in Handles :
          /\ {"exited", "reload: sending SIGTERM", "reload: starting"}
                \subseteq view[heap[h].View]
          /\ heap[h].Cmd # 0
          /\ Current(heap, os, h).st = "running"
          /\ Current(heap, os, h).sigs = <<>>

\* C8: when the startup loop is over, start has been attempted for every
\* handle, and every handle whose start failed has the failure reported in
\* its view.
C8_StartFailureReported ==
    goPc = "done" =>
        /\ goI = N
        /\ \A h \in Handles :
              (StartFails(heap[h].Argv) /\ heap[h].Cmd = 0) => view[heap[h].View] # {}

\* A TAB key press handled by the event loop.
TabStep == KeyTAB /\ lastCmd' = "TAB"

RECURSIVE tabTimes(_, _, _)
tabTimes(f, ps, n) == IF n = 0 THEN f ELSE tabTimes(tabFocus(f, ps), ps, n - 1)

\* C9: TAB with the focus on the pane at index i of N panes puts the focus
\* on the pane at index (i+1) mod N, N TABs in a row bring the focus back
\* to the pane it was on, and with no panes TAB changes nothing.
C9_FocusNextCyclic ==
    [][TabStep =>
          /\ focusedProcIndex(focus, procs) >= 0 =>
                /\ focusedProcIndex(focus', procs') =
                      (focusedProcIndex(focus, procs) + 1) % N
                /\ tabTimes(focus, procs, N) = focus
          /\ N = 0 => focus' = focus /\ procs' = procs]_vars

\* C9 case: with two panes the last command was TAB and the focus is on
\* the first pane of the registry: it wrapped from the last one.
C9_Wrapped ==
    /\ lastCmd = "TAB"
    /\ N = 2
    /\ focusedProcIndex(focus, procs) = 0

\* C10: TAB with no pane focused and a non-empty registry puts the focus
\* on the pane at index 0 of the registry.
C10_FocusNextFromNone ==
    [][(TabStep /\ focusedProcIndex(focus, procs) = -1 /\ N > 0) =>
          focusedProcIndex(focus', procs') = 0]_vars

\* =====================================================================
\* reloadProc's grace loop on a clock (src/main.go 561-577)
\* =====================================================================
\* Time passes only inside time.Sleep, and by exactly its argument; every
\* other statement takes no time.  The exit watch's cmd.Wait() may set
\* ProcessState at any moment of a sleep, or never.

\* A deadline that leaves no grace period.
graceDeadlineNone(t) == t

\* deadline := time.Now().Add(2 * time.Second)
graceDeadline(t) == t + GracePeriod

\* reloadProc is called for a handle with a process reference whose exit has
\* been collected already, or not.
GraceInit ==
    /\ clk = 0
    /\ rgPc = "term"
    /\ rgDeadline = 0
    /\ rgReapedAt \in {-1, 0}
    /\ rgKillAt = -1
    /\ rgEndAt = -1

\* killTree(p, syscall.SIGTERM); deadline := ...
RgTerm ==
    /\ rgPc = "term"
    /\ rgDeadline' = graceDeadline(clk)
    /\ rgPc' = "test"
    /\ UNCHANGED <<clk, rgReapedAt, rgKillAt, rgEndAt>>

\* for time.Now().Before(deadline)
RgTest ==
    /\ rgPc = "test"
    /\ rgPc' = IF clk < rgDeadline THEN "poll" ELSE "after"
    /\ UNCHANGED <<clk, rgDeadline, rgReapedAt, rgKillAt, rgEndAt>>

\* if p.Cmd.ProcessState != nil { break }
RgBreak ==
    /\ rgPc = "poll"
    /\ rgReapedAt >= 0
    /\ rgPc' = "after"
    /\ UNCHANGED <<clk, rgDeadline, rgReapedAt, rgKillAt, rgEndAt>>

\* time.Sleep(50 * time.Millisecond), the exit being collected d units into
\* it (d = 0: not during this sleep).
RgSleep ==
    /\ rgPc = "poll"
    /\ rgReapedAt < 0
    /\ clk' = clk + PollInterval
    /\ \E d \in 0..PollInterval :
          rgReapedAt' = IF d = 0 THEN rgReapedAt ELSE clk + d
    /\ rgPc' = "test"
    /\ UNCHANGED <<rgDeadline, rgKillAt, rgEndAt>>

\* if p.Cmd.ProcessState == nil { ...; killTree(p, syscall.SIGKILL); ... }
RgAfter ==
    /\ rgPc = "after"
    /\ rgEndAt' = clk
    /\ IF rgReapedAt < 0
       THEN rgKillAt' = clk /\ rgPc' = "settle"
       ELSE rgKillAt' = rgKillAt /\ rgPc' = "restart"
    /\ UNCHANGED <<clk, rgDeadline, rgReapedAt>>

\* time.Sleep(150 * time.Millisecond) after the SIGKILL
RgSettle ==
    /\ rgPc = "settle"
    /\ clk' = clk + KillSettle
    /\ \E d \in 0..KillSettle :
          rgReapedAt' = IF d = 0 THEN rgReapedAt ELSE clk + d
    /\ rgPc' = "restart"
    /\ UNCHANGED <<rgDeadline, rgKillAt, rgEndAt>>

GraceNext ==
    /\ \/ RgTerm
       \/ RgTest
       \/ RgBreak
       \/ RgSleep
       \/ RgAfter
       \/ RgSettle
    /\ UNCHANGED <<mainVars, lastCmd, moveVars, sinkVars, paneVars, pipeVars>>

GraceSpecInit == GraceInit /\ MainIdle /\ MoveIdle /\ SinkIdle /\ PaneIdle /\ PipeIdle

GraceSpec == GraceSpecInit /\ [][GraceNext]_vars

\* C11: in reloadProc the SIGKILL is issued only against a process whose
\* exit has not been observed, no earlier than the grace period after the
\* SIGTERM (sent at time 0) and no later than the grace period plus one poll
\* interval; when the exit is observed before, no SIGKILL is issued and
\* the wait ends within one poll interval of the exit's collection.
C11_EscalationTiming ==
    /\ rgKillAt >= 0 =>
          /\ rgKillAt >= GracePeriod
          /\ rgKillAt <= GracePeriod + PollInterval
          /\ rgReapedAt < 0 \/ rgReapedAt > rgKillAt
    /\ (rgEndAt >= 0 /\ rgReapedAt >= 0 /\ rgReapedAt <= rgEndAt) =>
          /\ rgKillAt = -1
          /\ rgEndAt - rgReapedAt <= PollInterval

\* C11 case: the process ignored SIGTERM and the SIGKILL has been issued.
C11_Escalated ==
    /\ rgPc = "settle"
    /\ rgKillAt = GracePeriod
    /\ rgReapedAt = -1

\* C12: with an empty list of declarations main returns before the event
\* loop is entered: it is never in the running state, the startup task is
\* never begun, no process is started and the shutdown sends no signal.
C12_RefusesEmptyConfig ==
    N = 0 =>
        /\ mainPc = "exit"
        /\ goPc = "sleep"
        /\ os = {}
        /\ \A x \in os : x.sigs = <<>>

\* C13: a step by which a child ends or its exit is collected leaves the
\* registry and every handle's fields as they are and changes neither the
\* view nor any process (signals included) of another handle; and when a
\* reload finds the exit collected and the command can be spawned, the
\* handle gets a new running process.
C13_ExitIsLocal ==
    [][/\ \A x \in os :
             (ChildExit(x) \/ ExitWatch(x)) =>
                /\ procs' = procs
                /\ heap' = heap
                /\ \A h \in Handles \ {x.h} :
                      /\ view'[heap[h].View] = view[heap[h].View]
                      /\ ProcessesOf(os', h) = ProcessesOf(os, h)
       /\ (ReloadExitSeen /\ ~StartFails(heap[rlH].Argv)) =>
             /\ heap'[rlH].Cmd # 0
             /\ Current(heap', os', rlH) \notin os
             /\ Current(heap', os', rlH).st = "running"
             /\ Current(heap', os', rlH).sigs = <<>>]_vars

\* C13 case: of two handles one has had its child's exit reported and was
\* reloaded into a new running process, while its sibling's first process
\* runs on, never signalled, its view empty.
C13_ExitedReloadedSiblingUntouched ==
    /\ N = 2
    /\ mainPc = "run"
    /\ \E h \in Handles, g \in Handles :
          /\ h # g
          /\ {"exited", "reload: starting"} \subseteq view[heap[h].View]
          /\ heap[h].Cmd # 0
          /\ Current(heap, os, h).st = "running"
          /\ view[heap[g].View] = {}
          /\ heap[g].Cmd # 0
          /\ Current(heap, os, g).st = "running"
          /\ Current(heap, os, g).sigs = <<>>

\* C14: every step of the startup loop starts the handle of the i-th
\* declaration (i the loop index), with that declaration's argv, whatever
\* reorder commands were handled before or between the steps: so each handle
\* is started once, in declaration order, with its own command.
C14_StartupByDeclaration ==
    [][StartupStep =>
          /\ procs[goI + 1] = makeProcsFromSpecs(specs).procs[goI + 1]
          /\ heap[procs[goI + 1]].Argv = argvs[goI + 1]]_vars

\* C15: reloadProc starts the replacement only when the exit of the
\* handle's current process has been collected, on the SIGKILL path too.
C15_RestartAfterExitCollected ==
    [][(ReloadExitSeen \/ ReloadAfterKill) => ProcessStateSet(heap, os, rlH)]_vars

\* =====================================================================
\* The tasks that write into one pane's view (src/main.go 427-436, 556-580)
\* =====================================================================
\* Per process instance k started for the handle: two copy tasks, which
\* write through that instance's lockingWriter (a new one per startProc),
\* and the exit watch, which calls fmt.Fprintf(p.View, ...) itself.  The
\* event loop writes reloadProc's notices with fmt.Fprintf(p.View, ...) too.
\* A task is "in" while it is inside the write to the view.
PaneTasks(k) == {<<"stdout", k>>, <<"stderr", k>>, <<"exit", k>>}

PaneWriters == {<<"reload", 0>>} \cup UNION {PaneTasks(k) : k \in 1..MaxInstances}

\* After the first startProc of the handle.
PaneInit ==
    /\ pnInst = 1
    /\ pnPc = [w \in PaneWriters |-> IF w[2] <= 1 THEN "idle" ELSE "off"]
    /\ pnMu = [k \in 1..MaxInstances |-> "free"]

\* io.Copy has read bytes and calls lw.Write.
PnCopyCall(w) ==
    /\ w[1] \in {"stdout", "stderr"}
    /\ pnPc[w] = "idle"
    /\ pnPc' = [pnPc EXCEPT ![w] = "lock"]
    /\ UNCHANGED <<pnMu, pnInst>>

\* io.Copy returns (end of input or read error).
PnCopyEnd(w) ==
    /\ w[1] \in {"stdout", "stderr"}
    /\ pnPc[w] = "idle"
    /\ pnPc' = [pnPc EXCEPT ![w] = "done"]
    /\ UNCHANGED <<pnMu, pnInst>>

\* l.mu.Lock() of the instance's own lockingWriter, then l.w.Write(b).
PnLock(w) ==
    /\ pnPc[w] = "lock"
    /\ pnMu[w[2]] = "free"
    /\ pnMu' = [pnMu EXCEPT ![w[2]] = w[1]]
    /\ pnPc' = [pnPc EXCEPT ![w] = "in"]
    /\ UNCHANGED pnInst

\* l.w.Write returns; l.mu.Unlock().
PnUnlock(w) ==
    /\ w[1] \in {"stdout", "stderr"}
    /\ pnPc[w] = "in"
    /\ pnMu' = [pnMu EXCEPT ![w[2]] = "free"]
    /\ pnPc' = [pnPc EXCEPT ![w] = "idle"]
    /\ UNCHANGED pnInst

\* cmd.Wait() has returned: fmt.Fprintf(p.View, "[%s] exited: %v").
PnExitNotice(w) ==
    /\ w[1] = "exit"
    /\ pnPc[w] = "idle"
    /\ pnPc' = [pnPc EXCEPT ![w] = "in"]
    /\ UNCHANGED <<pnMu, pnInst>>

PnExitNoticeDone(w) ==
    /\ w[1] = "exit"
    /\ pnPc[w] = "in"
    /\ pnPc' = [pnPc EXCEPT ![w] = "done"]
    /\ UNCHANGED <<pnMu, pnInst>>

\* reloadProc: fmt.Fprintf(p.View, "[%s] reload: ...").
PnReloadNotice ==
    /\ pnPc[<<"reload", 0>>] = "idle"
    /\ pnInst < MaxInstances
    /\ pnPc' = [pnPc EXCEPT ![<<"reload", 0>>] = "in"]
    /\ UNCHANGED <<pnMu, pnInst>>

PnReloadNoticeDone ==
    /\ pnPc[<<"reload", 0>>] = "in"
    /\ pnPc' = [pnPc EXCEPT ![<<"reload", 0>>] = "start"]
    /\ UNCHANGED <<pnMu, pnInst>>

\* reloadProc: startProc: a new instance with a new lockingWriter, its copy
\* tasks and its exit watch; the tasks of the old instance are not waited for.
PnReloadStart ==
    /\ pnPc[<<"reload", 0>>] = "start"
    /\ pnInst' = pnInst + 1
    /\ pnPc' = [w \in PaneWriters |->
                  IF w = <<"reload", 0>> THEN "idle"
                  ELSE IF w[2] = pnInst + 1 THEN "idle" ELSE pnPc[w]]
    /\ UNCHANGED pnMu

PaneNext ==
    /\ \/ \E w \in PaneWriters :
             \/ PnCopyCall(w)
             \/ PnCopyEnd(w)
             \/ PnLock(w)
             \/ PnUnlock(w)
             \/ PnExitNotice(w)
             \/ PnExitNoticeDone(w)
       \/ PnReloadNotice
       \/ PnReloadNoticeDone
       \/ PnReloadStart
    /\ UNCHANGED <<mainVars, lastCmd, moveVars, sinkVars, graceVars, pipeVars>>

PaneSpecInit == PaneInit /\ MainIdle /\ MoveIdle /\ SinkIdle /\ GraceIdle /\ PipeIdle

PaneSpec == PaneSpecInit /\ [][PaneNext]_vars

\* C16: at no time are two tasks (copy tasks of any instance, exit watch,
\* reload notices) inside a write into the same pane's view.
C16_OneWriterInPane == Cardinality({w \in PaneWriters : pnPc[w] = "in"}) <= 1

\* C17: a handle's process reference p.Cmd is nil unless it refers to a
\* process whose exit has not been collected: nil before the first start,
\* after a failed spawn and once the exit watch has collected the exit.
C17_ReferenceUnsetWhenNotRunning ==
    \A h \in Handles :
        heap[h].Cmd # 0 => Current(heap, os, h).st # "reaped"

\* =====================================================================
\* One process instance's pipes, copy tasks and exit watch
\* (src/main.go 413-436)
\* =====================================================================
\* The i-th byte the child writes to a stream is the number i.  cmd.Wait()
\* returns once the child has exited and, before returning, closes the
\* parent's read ends of the pipes made by StdoutPipe/StderrPipe; what is
\* then still in a pipe cannot be read any more.
Streams == {"stdout", "stderr"}

PipeInit ==
    /\ ppChild = "running"
    /\ ppWait = "waiting"
    /\ ppOpen = [s \in Streams |-> TRUE]
    /\ ppPipe = [s \in Streams |-> <<>>]
    /\ ppSent = [s \in Streams |-> 0]
    /\ ppCopy = [s \in Streams |-> "read"]
    /\ ppBuf = [s \in Streams |-> <<>>]
    /\ ppSunk = [s \in Streams |-> <<>>]

\* The child writes one more byte to stream s.
PpChildWrite(s) ==
    /\ ppChild = "running"
    /\ ppSent[s] < MaxBytes
    /\ ppSent' = [ppSent EXCEPT ![s] = @ + 1]
    /\ ppPipe' = [ppPipe EXCEPT ![s] = Append(@, ppSent[s] + 1)]
    /\ UNCHANGED <<ppChild, ppWait, ppOpen, ppCopy, ppBuf, ppSunk>>

\* The child exits; its write ends are closed.
PpChildExit ==
    /\ ppChild = "running"
    /\ ppChild' = "exited"
    /\ UNCHANGED <<ppWait, ppOpen, ppPipe, ppSent, ppCopy, ppBuf, ppSunk>>

\* err := cmd.Wait() in the exit watch, started right after cmd.Start().
PpWaitReturns ==
    /\ ppChild = "exited"
    /\ ppWait = "waiting"
    /\ ppWait' = "returned"
    /\ ppOpen' = [s \in Streams |-> FALSE]
    /\ ppPipe' = [s \in Streams |-> <<>>]
    /\ UNCHANGED <<ppChild, ppSent, ppCopy, ppBuf, ppSunk>>

\* io.Copy: Read returns some of the bytes in the pipe.
PpCopyRead(s) ==
    /\ ppCopy[s] = "read"
    /\ ppOpen[s]
    /\ \E n \in 1..Len(ppPipe[s]) :
          /\ ppBuf' = [ppBuf EXCEPT ![s] = SubSeq(ppPipe[s], 1, n)]
          /\ ppPipe' = [ppPipe EXCEPT ![s] = SubSeq(@, n + 1, Len(@))]
    /\ ppCopy' = [ppCopy EXCEPT ![s] = "write"]
    /\ UNCHANGED <<ppChild, ppWait, ppOpen, ppSent, ppSunk>>

\* io.Copy: lw.Write(buf) puts the bytes read into the sink.
PpCopyWrite(s) ==
    /\ ppCopy[s] = "write"
    /\ ppSunk' = [ppSunk EXCEPT ![s] = @ \o ppBuf[s]]
    /\ ppBuf' = [ppBuf EXCEPT ![s] = <<>>]
    /\ ppCopy' = [ppCopy EXCEPT ![s] = "read"]
    /\ UNCHANGED <<ppChild, ppWait, ppOpen, ppPipe, ppSent>>

\* io.Copy returns: Read reports end of input (pipe empty, writer gone) or
\* fails because the read end was closed; the result is dropped.
PpCopyEnd(s) ==
    /\ ppCopy[s] = "read"
    /\ \/ ppOpen[s] /\ ppPipe[s] = <<>> /\ ppChild = "exited"
       \/ ~ppOpen[s]
    /\ ppCopy' = [ppCopy EXCEPT ![s] = "done"]
    /\ UNCHANGED <<ppChild, ppWait, ppOpen, ppPipe, ppSent, ppBuf, ppSunk>>

PipeNext ==
    /\ \/ \E s \in Streams :
             \/ PpChildWrite(s)
             \/ PpCopyRead(s)
             \/ PpCopyWrite(s)
             \/ PpCopyEnd(s)
       \/ PpChildExit
       \/ PpWaitReturns
    /\ UNCHANGED <<mainVars, lastCmd, moveVars, sinkVars, graceVars, paneVars>>

PipeSpecInit == PipeInit /\ MainIdle /\ MoveIdle /\ SinkIdle /\ GraceIdle /\ PaneIdle

PipeSpec == PipeSpecInit /\ [][PipeNext]_vars

\* C18: each stream's bytes reach the sink in the order the child wrote
\* them, and when a copy loop is over every byte the child wrote to its
\* stream has been written into the sink.
C18_StreamForwardedCompletely ==
    \A s \in Streams :
        /\ ppSunk[s] = [i \in 1..Len(ppSunk[s]) |-> i]
        /\ ppCopy[s] = "done" => Len(ppSunk[s]) = ppSent[s]

\* =====================================================================
\* The supervisor under fair scheduling
\* =====================================================================
\* LifecycleSpec's steps over at most MaxFairProcs declarations, where the
\* main goroutine and the exit watches are not starved: a goroutine that
\* can run does run.  Nothing is assumed of the operator, the children, or
\* external signals.
FairInit ==
    /\ specs \in SeqsUpTo(ProcSpec, MaxFairProcs)
    /\ heap = makeProcsFromSpecs(specs).heap
    /\ procs = makeProcsFromSpecs(specs).procs
    /\ focus = 0
    /\ os = {}
    /\ view = [i \in 1..Len(specs) |-> {}]
    /\ mainPc = "run"
    /\ rlH = 0
    /\ sdIdx = 0
    /\ slept = 0
    /\ sdSent = [i \in 1..Len(specs) |-> <<>>]
    /\ quits = 0
    /\ sigPc = "wait"
    /\ goPc = "sleep"
    /\ goI = 0
    /\ nReload = 0
    /\ lastCmd = "none"
    /\ MoveIdle
    /\ SinkIdle
    /\ PartsIdle

\* The steps of the main goroutine that no input is needed for.
MainThread ==
    /\ \/ RunReturns
       \/ Broadcast
       \/ Grace
       \/ ReloadExitSeen
       \/ ReloadDeadline
       \/ ReloadAfterKill
    /\ UNCHANGED <<lastCmd, moveVars, sinkVars, partVars>>

ExitWatches ==
    /\ \E x \in os : ExitWatch(x)
    /\ UNCHANGED <<lastCmd, moveVars, sinkVars, partVars>>

FairSpec ==
    /\ FairInit
    /\ [][LifecycleNext]_vars
    /\ WF_vars(MainThread)
    /\ WF_vars(ExitWatches)

\* The instance k of handle h has exited and its exit is not collected.
ExitedInstance(o, h, k) == \E x \in o : x.h = h /\ x.id = k /\ x.st = "exited"

C20_QuitCompletes == (quits > 0) ~> (mainPc = "exit")

\* C20 case: main has returned after a quit, the shutdown having sent both
\* signals to a handle whose reload had to force SIGKILL.
C20_QuitAfterForcedReload ==
    /\ quits > 0
    /\ mainPc = "exit"
    /\ \E h \in Handles :
          /\ "reload: forcing SIGKILL" \in view[heap[h].View]
          /\ sdSent[h] = <<"SIGTERM", "SIGKILL">>

\* ------------------------------------------------------------------ C21
\* x has been sent SIGKILL by the second loop of the shutdown sequence.
ShutdownKilled(x) == \E i \in 1..Len(x.sigs) : x.sigs[i] = <<"SIGKILL", "shutdown">>

\* C21: no orphan at exit.  When main has returned through the shutdown
\* sequence, every OS process the supervisor spawned (by the startup task or
\* by reload, after quit or not, still referred to by its handle or not) has
\* exited or has been sent SIGKILL by the shutdown broadcast.
C21_NoOrphanAtExit ==
    mainPc = "exit" => \A x \in os : x.st # "running" \/ ShutdownKilled(x)

\* ------------------------------------------------------------------ C22
\* A J resp. K key press handled by the event loop.
MoveDownStep == KeyJ /\ lastCmd' = "J"
MoveUpStep == KeyK /\ lastCmd' = "K"

\* The handle whose pane has the focus, 0 when no pane has it.
FocusedHandle(f, ps) ==
    IF focusedProcIndex(f, ps) >= 0 THEN ps[focusedProcIndex(f, ps) + 1] ELSE 0

\* C22: move-down (move-up) keeps the focus on the handle that had it, which
\* is then one position later (earlier) in the registry; move-down on the
\* last pane, move-up on the first pane, and either command with no pane
\* focused leave the registry order and the focus unchanged.
C22_MoveKeepsFocusedHandle ==
    [][/\ MoveDownStep =>
            LET idx == focusedProcIndex(focus, procs)
            IN  IF idx >= 0 /\ idx + 1 < Len(procs)
                THEN /\ FocusedHandle(focus', procs') = FocusedHandle(focus, procs)
                     /\ focusedProcIndex(focus', procs') = idx + 1
                ELSE procs' = procs /\ focus' = focus
       /\ MoveUpStep =>
            LET idx == focusedProcIndex(focus, procs)
            IN  IF idx > 0
                THEN /\ FocusedHandle(focus', procs') = FocusedHandle(focus, procs)
                     /\ focusedProcIndex(focus', procs') = idx - 1
                ELSE procs' = procs /\ focus' = focus]_vars

\* C22 case: with two panes the last command was move-down, and the focus
\* is on the first declared handle, which is now last in the registry.
C22_MovedDownWithFocus ==
    /\ lastCmd = "J"
    /\ N = 2
    /\ procs = <<2, 1>>
    /\ FocusedHandle(focus, procs) = 1
=============================================================================
